---- MODULE Spec2Model ----
(***************************************************************************)
(* A model of the limit order book engine of src/src/Core/OrderBook.cpp    *)
(* (class OrderBook of src/include/orderbook/Core/OrderBook.hpp).          *)
(*                                                                         *)
(* The engine is constructed without logger, so every `if (logger_)`       *)
(* block of the source is skipped.  risk_manager_ and market_data_ tell    *)
(* whether a risk manager and a market data publisher were given: Spec     *)
(* builds the engine with its default arguments (neither), SpecApi with or *)
(* without risk manager, SpecRisk with a risk manager that has limits,     *)
(* SpecFeed with a publisher, SpecThrow with a publisher whose subscriber   *)
(* throws.                                                                 *)
(*                                                                         *)
(* events holds what the publisher received during the last call.          *)
(* book_sequence is the static counter of OrderBook::publishBookUpdate,    *)
(* trade_counter the static counter of OrderBook::executeTrade,            *)
(* other the members of a second OrderBook of the same process (SpecTwo),  *)
(* threads the position and the locals of each thread inside addOrder      *)
(* (SpecThreads),                                                          *)
(* sequence_ the counter of the publisher.  prior is the book as it was    *)
(* when the last addOrder or modifyOrder began.                            *)
(*                                                                         *)
(* An Order carries type, tif, symbol and account.  The engine copies them *)
(* into the order it keeps and never reads them again: type and tif are    *)
(* kept in the record of the call (last) only, the account also in the     *)
(* heap object.  There is one symbol.                                      *)
(*                                                                         *)
(* The risk manager keeps the account of each order id (order_accounts)    *)
(* and the net position of each account (portfolios_).  net is the net     *)
(* position each account has from the trades of the orders it submitted.   *)
(*                                                                         *)
(* Memory is modelled as the code lays it out:                             *)
(*   - bids_ and asks_ are std::vector<PriceLevel> with reserved capacity: *)
(*     a vector is a record [data, size]; data[1..size] are the elements,  *)
(*     data[size+1..] is storage whose element was destroyed and that      *)
(*     still holds its last bytes;                                         *)
(*   - a PriceLevel* is a slot [side, idx] of one of the two vectors: it   *)
(*     follows the slot, not the level, when an insertion or an erasure    *)
(*     shifts the elements;                                                *)
(*   - an Order* is the order id (0 is nullptr); heap[id] is the object,   *)
(*     kept with st = "freed" after delete while something points at it.   *)
(* Reading a destroyed vector element or a freed order is undefined        *)
(* behaviour: the model continues with the bytes left in memory and sets   *)
(* ub, or the process stops (pc = "crashed").                              *)
(*                                                                         *)
(* Quantities and counts are uint64_t / size_t.  A value v is kept as the  *)
(* integer of least magnitude congruent to v modulo 2^64, so that a        *)
(* negative integer r stands for the wrapped value 2^64 + r; ULess orders  *)
(* such representatives as unsigned numbers.                               *)
(*                                                                         *)
(* Prices are whole multiples of a unit larger than MinPriceIncrement, so  *)
(* |a - b| < MinPriceIncrement iff a = b and |a - b| > MinPriceIncrement   *)
(* iff a # b for every pair of modelled prices.                            *)
(***************************************************************************)
EXTENDS Integers, Sequences, FiniteSets, TLC

\* ------------------------------------------------------------------ bounds
MaxId == 4
MaxPrice == 3
MaxQty == 2
MaxOps == 4
MaxApiOps == 3
MaxRiskOps == 2
MaxLedgerOps == 4

\* the limits of the risk manager
MAX_ORDER_SIZE == 1
MAX_PRICE == 1
MAX_POSITION == 1

Ids == 1..MaxId
Prices == 1..MaxPrice
Qtys == 1..MaxQty
Sides == {"Buy", "Sell"}

\* iterations after which a matching loop is known never to end
Fuel == 2 * MaxId + 4

Types == {"Limit", "Market"}
Tifs == {"GTC", "IOC", "FOK"}
Accounts == {"", "acct"}

\* OrderBook::addOrder, line 40: the account an order is booked to
AccountName(account) == IF account = "" THEN "default" ELSE account

AccountNames == {AccountName(a) : a \in Accounts}

NoPositions == [a \in AccountNames |-> 0]

VARIABLES bids_, asks_, price_index_, order_index_, heap,
          risk_manager_, order_accounts, portfolios_, net,
          market_data_, book_sequence, sequence_, events, trade_counter,
          other, threads, trades, last, prior, nops, ub, pc

vars == <<bids_, asks_, price_index_, order_index_, heap, risk_manager_, order_accounts,
          portfolios_, net, market_data_, book_sequence, sequence_, events,
          trade_counter, other, threads, trades, last, prior, nops, ub, pc>>

\* ------------------------------------------------------- unsigned integers
ULess(a, b) == IF (a >= 0) = (b >= 0) THEN a < b ELSE a >= 0

UMin(a, b) == IF ULess(b, a) THEN b ELSE a

\* ------------------------------------------------------------------ Order
Opposite(s) == IF s = "Buy" THEN "Sell" ELSE "Buy"

NoOrder == [st |-> "none", side |-> "Buy", price |-> 0, quantity |-> 0,
            filled_quantity |-> 0, account |-> "", prev |-> 0, next |-> 0, arrival |-> 0]

\* arrival is the time the order joined the queue it is in
NewOrder(side, price, quantity, account) ==
    [st |-> "live", side |-> side, price |-> price, quantity |-> quantity,
     filled_quantity |-> 0, account |-> account, prev |-> 0, next |-> 0, arrival |-> 0]

remainingQuantity(o) == o.quantity - o.filled_quantity

isFullyFilled(o) == remainingQuantity(o) = 0

fill(o, q) == [o EXCEPT !.filled_quantity = @ + q]

\* p->next = n and p->prev = n, when p is not nullptr
SetNext(h, p, n) == IF p = 0 THEN h ELSE [h EXCEPT ![p].next = n]

SetPrev(h, p, n) == IF p = 0 THEN h ELSE [h EXCEPT ![p].prev = n]

\* -------------------------------------------------------------- PriceLevel
PriceLevel(price) ==
    [price |-> price, total_quantity |-> 0, order_count |-> 0, head |-> 0, tail |-> 0]

isEmpty(lv) == lv.order_count = 0

getFirstOrder(lv) == lv.head

EmptyVec == [data |-> <<>>, size |-> 0]

\* the machine state the operations thread through their steps
Vec(m, s) == IF s = "Buy" THEN m.bids ELSE m.asks

SetVec(m, s, v) == IF s = "Buy" THEN [m EXCEPT !.bids = v] ELSE [m EXCEPT !.asks = v]

Deref(m, lp) == Vec(m, lp.side).data[lp.idx]

SetLevel(m, lp, lv) ==
    SetVec(m, lp.side, [Vec(m, lp.side) EXCEPT !.data[lp.idx] = lv])

\* *lp of a destroyed element, *o of a freed order: undefined behaviour
TouchLevel(m, lp) == [m EXCEPT !.ub = @ \/ (lp.idx > Vec(m, lp.side).size)]

TouchOrder(m, o) == [m EXCEPT !.ub = @ \/ (o # 0 /\ m.heap[o].st # "live")]

\* PriceLevel::addOrder(order): append at the tail
PriceLevel_addOrder(m, lp, o) ==
    LET lv == Deref(m, lp)
    IN SetLevel([TouchLevel(TouchOrder(TouchOrder(m, o), lv.tail), lp) EXCEPT
                    !.heap = SetNext([@ EXCEPT ![o].prev = lv.tail, ![o].next = 0],
                                     lv.tail, o)],
                lp,
                [lv EXCEPT !.head = IF lv.tail = 0 THEN o ELSE @,
                           !.tail = o,
                           !.total_quantity = @ + remainingQuantity(m.heap[o]),
                           !.order_count = @ + 1])

\* PriceLevel::removeOrder(order): unlink, the order keeps its own prev/next
PriceLevel_removeOrder(m, lp, o) ==
    LET lv == Deref(m, lp)
        ord == m.heap[o]
    IN SetLevel([TouchLevel(TouchOrder(TouchOrder(TouchOrder(m, o), ord.prev), ord.next), lp)
                    EXCEPT !.heap = SetPrev(SetNext(@, ord.prev, ord.next),
                                            ord.next, ord.prev)],
                lp,
                [lv EXCEPT !.head = IF @ = o THEN ord.next ELSE @,
                           !.tail = IF @ = o THEN ord.prev ELSE @,
                           !.total_quantity = @ - remainingQuantity(ord),
                           !.order_count = @ - 1])

\* the level loses the traded quantity
LevelTraded(m, lp, q) ==
    SetLevel(TouchLevel(m, lp), lp, [Deref(m, lp) EXCEPT !.total_quantity = @ - q])

\* PriceLevel::updateQuantity(order, traded): the level loses the traded
\* quantity, and an order the trade filled completely leaves the queue
PriceLevel_updateQuantity(m, lp, o, q) ==
    IF isFullyFilled(m.heap[o])
    THEN PriceLevel_removeOrder(LevelTraded(TouchOrder(m, o), lp, q), lp, o)
    ELSE LevelTraded(TouchOrder(m, o), lp, q)

\* -------------------------------------------------- std::vector<PriceLevel>
\* vector::emplace(pos, price) within the reserved capacity
VecInsert(v, pos, lv) ==
    [data |-> SubSeq(v.data, 1, pos - 1) \o <<lv>> \o SubSeq(v.data, pos, v.size)
              \o SubSeq(v.data, v.size + 2, Len(v.data)),
     size |-> v.size + 1]

\* vector::erase(it): the tail moves down, the last element is destroyed
\* and its storage keeps its bytes
VecErase(v, i) ==
    [data |-> SubSeq(v.data, 1, i - 1) \o SubSeq(v.data, i + 1, v.size)
              \o <<v.data[v.size]>> \o SubSeq(v.data, v.size + 1, Len(v.data)),
     size |-> v.size - 1]

\* std::lower_bound over data[first .. first+len-1] with the side's comparator
RECURSIVE LowerBound(_, _, _, _, _)
LowerBound(data, first, len, price, side) ==
    IF len <= 0 THEN first
    ELSE LET half == len \div 2
             mid  == first + half
             comp == IF side = "Buy" THEN data[mid].price < price
                                     ELSE data[mid].price > price
         IN IF comp THEN LowerBound(data, mid + 1, len - half - 1, price, side)
                    ELSE LowerBound(data, first, half, price, side)

\* std::is_sorted / std::sort by price; asc = TRUE for the comparator
\* a.price < b.price.  std::sort leaves the order of equal prices
\* unspecified: tie chooses between the two orders of a pair of equals.
IsSortedLevels(s, asc) ==
    \A i \in 1..(Len(s) - 1) :
        IF asc THEN ~(s[i + 1].price < s[i].price) ELSE ~(s[i + 1].price > s[i].price)

RECURSIVE InsertSorted(_, _, _, _)
InsertSorted(s, x, asc, tie) ==
    IF s = <<>> THEN <<x>>
    ELSE LET h == Head(s)
             stays == \/ (IF asc THEN h.price < x.price ELSE h.price > x.price)
                      \/ (~tie /\ h.price = x.price)
         IN IF stays THEN <<h>> \o InsertSorted(Tail(s), x, asc, tie)
                     ELSE <<x>> \o s

RECURSIVE SortLevels(_, _, _)
SortLevels(s, asc, tie) ==
    IF s = <<>> THEN <<>>
    ELSE InsertSorted(SortLevels(SubSeq(s, 1, Len(s) - 1), asc, tie), s[Len(s)], asc, tie)

VecSort(v, asc, tie) ==
    [v EXCEPT !.data = SortLevels(SubSeq(v.data, 1, v.size), asc, tie)
                       \o SubSeq(v.data, v.size + 1, Len(v.data))]

\* ------------------------------------------------- price level management
MapDrop(f, k) == [x \in (DOMAIN f) \ {k} |-> f[x]]

MapPut(f, k, val) == [x \in (DOMAIN f) \cup {k} |-> IF x = k THEN val ELSE f[x]]

LevelPrices(v) == {v.data[i].price : i \in 1..v.size}

LastIndexOf(v, p) == CHOOSE i \in 1..v.size :
    v.data[i].price = p /\ \A j \in (i + 1)..v.size : v.data[j].price # p

\* OrderBook::rebuildPriceIndex: bids first, then asks, later entries win
rebuildPriceIndex(m) ==
    [m EXCEPT !.pidx =
        [p \in LevelPrices(m.bids) \cup LevelPrices(m.asks) |->
            IF p \in LevelPrices(m.asks)
            THEN [side |-> "Sell", idx |-> LastIndexOf(m.asks, p)]
            ELSE [side |-> "Buy", idx |-> LastIndexOf(m.bids, p)]]]

\* OrderBook::maintainSortedOrder
maintainSortedOrder(m) ==
    LET b == IF IsSortedLevels(SubSeq(m.bids.data, 1, m.bids.size), TRUE)
             THEN m.bids ELSE VecSort(m.bids, TRUE, m.tie)
        a == IF IsSortedLevels(SubSeq(m.asks.data, 1, m.asks.size), FALSE)
             THEN m.asks ELSE VecSort(m.asks, FALSE, m.tie)
    IN rebuildPriceIndex([m EXCEPT !.bids = b, !.asks = a])

\* OrderBook::findOrCreatePriceLevel, lines 371-403: a new level enters
\* levels at pos; the machine state and the PriceLevel*
createPriceLevel(m, price, side, pos) ==
    [m  |-> [SetVec(m, side, VecInsert(Vec(m, side), pos, PriceLevel(price)))
                EXCEPT !.pidx = MapPut(@, price, [side |-> side, idx |-> pos])],
     lp |-> [side |-> side, idx |-> pos]]

\* OrderBook::findOrCreatePriceLevel(price, side)
findOrCreatePriceLevel(m, price, side) ==
    IF price \in DOMAIN m.pidx
    THEN IF Deref(m, m.pidx[price]).price = price
         THEN [m |-> TouchLevel(m, m.pidx[price]), lp |-> m.pidx[price]]
         ELSE createPriceLevel([TouchLevel(m, m.pidx[price]) EXCEPT
                                   !.pidx = MapDrop(@, price)],
                               price, side,
                               LowerBound(Vec(m, side).data, 1, Vec(m, side).size,
                                          price, side))
    ELSE createPriceLevel(m, price, side,
                          LowerBound(Vec(m, side).data, 1, Vec(m, side).size, price, side))

\* OrderBook::removePriceLevel, lines 432-451: find_if by address, erase
eraseLevel(m, lp, side) ==
    IF lp.side = side /\ lp.idx <= Vec(m, side).size
    THEN SetVec(m, side, VecErase(Vec(m, side), lp.idx))
    ELSE m

\* OrderBook::removePriceLevel(level, side)
removePriceLevel(m, lp, side) ==
    IF ~isEmpty(Deref(m, lp)) THEN TouchLevel(m, lp)
    ELSE eraseLevel([TouchLevel(m, lp) EXCEPT !.pidx = MapDrop(@, Deref(m, lp).price)],
                    lp, side)

\* ----------------------------------------------------------- queries
bestBid(b) == IF b.size = 0 THEN 0 ELSE b.data[b.size].price

bestAsk(a) == IF a.size = 0 THEN 0 ELSE a.data[a.size].price

getOrderCount(oidx) == Cardinality(DOMAIN oidx)

DepthLevel(lv) ==
    [price |-> lv.price, total_quantity |-> lv.total_quantity, order_count |-> lv.order_count]

\* one side of OrderBook::getDepth(levels): from the back of the vector
DepthSide(v, levels) ==
    [i \in 1..(IF levels < v.size THEN levels ELSE v.size) |->
        DepthLevel(v.data[v.size + 1 - i])]

\* OrderBook::getDepth(levels)
getDepth(b, a, levels) == [bids |-> DepthSide(b, levels), asks |-> DepthSide(a, levels)]

\* OrderBook::getBestPrices(): the last element of each vector
getBestPrices(b, a) ==
    [bid |-> bestBid(b),
     bid_size |-> IF b.size = 0 THEN 0 ELSE b.data[b.size].total_quantity,
     ask |-> bestAsk(a),
     ask_size |-> IF a.size = 0 THEN 0 ELSE a.data[a.size].total_quantity]

\* ------------------------------------------------------------- market data
\* what a subscriber receives.  A BookUpdate (Add, Modify, Remove) carries
\* the sequence number the engine gave it; a Trade and a BestPrices carry the
\* number the publisher gives them; a Depth snapshot carries none
NoPrices == [bid |-> 0, bid_size |-> 0, ask |-> 0, ask_size |-> 0]

NoDepth == [bids |-> <<>>, asks |-> <<>>]

Event(kind, side, price, quantity, order_count, sequence) ==
    [kind |-> kind, side |-> side, price |-> price, quantity |-> quantity,
     order_count |-> order_count, sequence |-> sequence,
     buy_order_id |-> 0, sell_order_id |-> 0, prices |-> NoPrices, depth |-> NoDepth]

\* OrderBook::publishBookUpdate(type, side, price, quantity, order_count):
\* book_sequence is a static of the function
publishBookUpdate(m, type, side, price, quantity, order_count) ==
    IF m.md
    THEN [m EXCEPT !.bseq = @ + 1,
                   !.events = Append(@, Event(type, side, price, quantity, order_count,
                                              m.bseq + 1))]
    ELSE m

\* publishBookUpdate for the order o as it is now and the count of *lp
publishOrderUpdate(m, type, o, lp) ==
    publishBookUpdate(TouchLevel(TouchOrder(m, o), lp), type, m.heap[o].side,
                      m.heap[o].price, remainingQuantity(m.heap[o]),
                      Deref(m, lp).order_count)

\* MarketDataPublisher::publishTrade(trade)
publishTrade(m, trade) ==
    IF m.md
    THEN [m EXCEPT !.seq = @ + 1,
                   !.events = Append(@, [Event("Trade", trade.taker_order.side, trade.price,
                                               trade.quantity, 0, m.seq + 1)
                                            EXCEPT !.buy_order_id = trade.buy_order_id,
                                                   !.sell_order_id = trade.sell_order_id])]
    ELSE m

\* MarketDataPublisher::publishBestPrices(prices)
publishBestPrices(m, prices) ==
    [m EXCEPT !.seq = @ + 1,
              !.events = Append(@, [Event("BestPrices", "Buy", 0, 0, 0, m.seq + 1)
                                       EXCEPT !.prices = prices])]

\* MarketDataPublisher::publishDepth(depth)
publishDepth(m, depth) ==
    [m EXCEPT !.events = Append(@, [Event("Depth", "Buy", 0, 0, 0, 0)
                                       EXCEPT !.depth = depth])]

\* OrderBook::publishMarketDataUpdate()
publishMarketDataUpdate(m) ==
    IF m.md
    THEN publishDepth(publishBestPrices(m, getBestPrices(m.bids, m.asks)),
                      getDepth(m.bids, m.asks, 5))
    ELSE m

\* ---------------------------------------------------------------- matching
\* the ids a traversal from o along next visits (at most n of them)
RECURSIVE Chain(_, _, _)
Chain(h, o, n) == IF o = 0 \/ n = 0 THEN <<>> ELSE <<o>> \o Chain(h, h[o].next, n - 1)

Queue(h, lv) == Chain(h, lv.head, MaxId + 1)

SeqToSet(s) == {s[i] : i \in 1..Len(s)}

Better(side, p, q) == IF side = "Sell" THEN p < q ELSE p > q

\* the orders of side `side` with something left to trade that are queued in
\* a level of v whose price is better than `price`
BetterMakers(m, v, side, price, taker) ==
    {o \in UNION {SeqToSet(Queue(m.heap, v.data[i])) :
                     i \in {j \in 1..v.size : Better(side, v.data[j].price, price)}} :
        /\ o # taker
        /\ m.heap[o].st = "live"
        /\ m.heap[o].side = side
        /\ ULess(0, remainingQuantity(m.heap[o]))}

\* the orders queued in lv that joined it before o did
EarlierInLevel(m, lv, o) ==
    {x \in SeqToSet(Queue(m.heap, lv)) :
        x # o /\ m.heap[x].st = "live" /\ m.heap[x].arrival < m.heap[o].arrival}

\* Order::fill of both orders, OrderBook::executeTrade lines 655-656
Filled(h, agg, pas, q) ==
    [[h EXCEPT ![agg] = fill(@, q)] EXCEPT ![pas] = fill(@, q)]

\* the Trade of OrderBook::executeTrade, lines 658-667, its id taken from
\* the static trade_counter of the function, and what held when
\* it was made: the two orders before and after the fills, the level traded at
TradeRecord(m, agg, pas, lp, trade_price, trade_quantity) ==
    [id |-> m.tctr,
     buy_order_id  |-> IF m.heap[agg].side = "Buy" THEN agg ELSE pas,
     sell_order_id |-> IF m.heap[agg].side = "Sell" THEN agg ELSE pas,
     price |-> trade_price,
     quantity |-> trade_quantity,
     taker |-> agg,
     maker |-> pas,
     taker_order |-> m.heap[agg],
     maker_order |-> m.heap[pas],
     taker_after |-> Filled(m.heap, agg, pas, trade_quantity)[agg],
     maker_after |-> Filled(m.heap, agg, pas, trade_quantity)[pas],
     buy_account  |-> IF m.heap[agg].side = "Buy" THEN m.heap[agg].account
                                                  ELSE m.heap[pas].account,
     sell_account |-> IF m.heap[agg].side = "Sell" THEN m.heap[agg].account
                                                   ELSE m.heap[pas].account,
     level_side |-> lp.side,
     level_price |-> Deref(m, lp).price,
     level_head |-> Deref(m, lp).head,
     better_makers |-> BetterMakers(m, Vec(m, lp.side), lp.side, Deref(m, lp).price, agg),
     earlier_in_level |-> EarlierInLevel(m, Deref(m, lp), pas)]

\* RiskManager::getAccountForOrder(id)
getAccountForOrder(accts, id) == IF id \in DOMAIN accts THEN accts[id] ELSE "default"

\* RiskManager::updatePosition(trade): the account of the buy order gains
\* the quantity, the account of the sell order loses it
updatePosition(portfolios, accts, trade) ==
    [a \in AccountNames |->
        portfolios[a]
        + (IF a = getAccountForOrder(accts, trade.buy_order_id) THEN trade.quantity ELSE 0)
        - (IF a = getAccountForOrder(accts, trade.sell_order_id) THEN trade.quantity ELSE 0)]

\* OrderBook::executeTrade, lines 669-677, for the trade just made
tradePositions(m) ==
    IF m.risk
    THEN [m EXCEPT !.portfolios = updatePosition(@, m.accts, m.trades[Len(m.trades)])]
    ELSE m

\* OrderBook::executeTrade, lines 679-682, for the trade just made
tradePublished(m) == publishTrade(m, m.trades[Len(m.trades)])

\* OrderBook::executeTrade(aggressive, passive, price, quantity), reached
\* from matchAgainstPriceLevel for the level lp
executeTrade(m, agg, pas, lp, trade_price, trade_quantity) ==
    tradePublished(
        tradePositions(
            [m EXCEPT !.heap = Filled(@, agg, pas, trade_quantity),
                      !.tctr = @ + 1,
                      !.trades = Append(@, TradeRecord(m, agg, pas, lp, trade_price,
                                                       trade_quantity))]))

\* the trade quantity of OrderBook::matchAgainstPriceLevel, lines 606-607
tradeQuantity(m, inc, cur) ==
    UMin(remainingQuantity(m.heap[inc]), remainingQuantity(m.heap[cur]))

\* lines 617-627 with the Modify branch taken for a filled order too
publishMakerUpdateAsModify(m, lp, cur) == publishOrderUpdate(m, "Modify", cur, lp)

\* OrderBook::matchAgainstPriceLevel, lines 617-627: the update published
\* for the passive order, with the size_t order_count - 1 when it is filled
publishMakerUpdate(m, lp, cur) ==
    IF isFullyFilled(m.heap[cur])
    THEN publishBookUpdate(TouchLevel(TouchOrder(m, cur), lp), "Remove", m.heap[cur].side,
                           m.heap[cur].price, 0, Deref(m, lp).order_count - 1)
    ELSE publishOrderUpdate(m, "Modify", cur, lp)

\* OrderBook::matchAgainstPriceLevel, lines 612-627: the trade, the update
\* of the level and the update published
matchTrade(m, inc, lp, cur) ==
    publishMakerUpdate(
        PriceLevel_updateQuantity(
            executeTrade(TouchLevel(TouchOrder(TouchOrder(m, inc), cur), lp), inc, cur, lp,
                         Deref(m, lp).price, tradeQuantity(m, inc, cur)),
            lp, cur, tradeQuantity(m, inc, cur)),
        lp, cur)

\* OrderBook::matchAgainstPriceLevel, lines 633-640: the filled order leaves
\* the index and is deleted
dropFilled(m, cur) ==
    [m EXCEPT !.oidx = MapDrop(@, cur), !.heap[cur].st = "freed"]

\* the while loop of OrderBook::matchAgainstPriceLevel, lines 604-643;
\* matchNext is its part after the trade, lines 629-642
RECURSIVE MatchLoop(_, _, _, _, _)
RECURSIVE matchNext(_, _, _, _, _)
MatchLoop(m, inc, lp, cur, fuel) ==
    IF fuel = 0 THEN [m EXCEPT !.hang = TRUE]
    ELSE IF cur = 0 THEN m
    ELSE IF isFullyFilled(m.heap[inc]) THEN TouchOrder(m, inc)
    ELSE IF tradeQuantity(m, inc, cur) = 0 THEN TouchOrder(TouchOrder(m, inc), cur)
    ELSE matchNext(matchTrade(m, inc, lp, cur), inc, lp, cur, fuel)

matchNext(m, inc, lp, cur, fuel) ==
    IF isFullyFilled(m.heap[cur])
    THEN MatchLoop(dropFilled(m, cur), inc, lp, m.heap[cur].next, fuel - 1)
    ELSE MatchLoop(m, inc, lp, cur, fuel - 1)

\* OrderBook::matchAgainstPriceLevel, lines 645-649: an empty level goes
cleanUpLevel(m, inc, lp) ==
    IF m.hang THEN m
    ELSE IF isEmpty(Deref(m, lp))
         THEN removePriceLevel(TouchOrder(m, inc), lp, Opposite(m.heap[inc].side))
         ELSE TouchLevel(m, lp)

\* OrderBook::matchAgainstPriceLevel(incoming_order, price_level)
matchAgainstPriceLevel(m, inc, lp) ==
    cleanUpLevel(MatchLoop(TouchLevel(m, lp), inc, lp, getFirstOrder(Deref(m, lp)), Fuel),
                 inc, lp)

\* the range-based for of OrderBook::executeMatching: it runs from begin()
\* to the end() taken before the first iteration, whatever is erased meanwhile
RECURSIVE LevelLoop(_, _, _, _, _)
LevelLoop(m, inc, side, it, end) ==
    IF it = end \/ m.hang THEN m
    ELSE LET lp == [side |-> side, idx |-> it]
             level == Deref(m, lp)
             o == m.heap[inc]
             can_match == IF o.side = "Buy" THEN o.price >= level.price
                                            ELSE o.price <= level.price
         IN IF isEmpty(level) \/ isFullyFilled(o) \/ ~can_match
            THEN TouchOrder(TouchLevel(m, lp), inc)
            ELSE LevelLoop(matchAgainstPriceLevel(TouchOrder(TouchLevel(m, lp), inc),
                                                  inc, lp),
                           inc, side, it + 1, end)

\* OrderBook::executeMatching(incoming_order, opposite_levels)
executeMatching(m, inc, side) ==
    LevelLoop(SetVec(m, side, VecSort(Vec(m, side), m.heap[inc].side = "Buy", m.tie)),
              inc, side, 1, Vec(m, side).size + 1)

\* OrderBook::processMatching(incoming_order)
processMatching(m, inc) ==
    LET o == m.heap[inc]
        opposite_levels == Vec(m, Opposite(o.side))
        best_level == opposite_levels.data[opposite_levels.size]
        can_match == IF o.side = "Buy" THEN o.price >= best_level.price
                                       ELSE o.price <= best_level.price
    IN IF opposite_levels.size = 0 THEN m
       ELSE IF can_match /\ ~isEmpty(best_level)
            THEN executeMatching(m, inc, Opposite(o.side))
            ELSE m

\* --------------------------------------------------------- core operations
Location(o, lp, side) == [order |-> o, price_level |-> lp, side |-> side]

\* operator delete on an Order*
Delete(m, o) == [TouchOrder(m, o) EXCEPT !.heap[o].st = "freed"]

\* price_level->addOrder(order) and order_index_[id] = OrderLocation(...),
\* lines 87-91 and 228-235; r is what findOrCreatePriceLevel returned
restOrder(r, id, now) ==
    [PriceLevel_addOrder(r.m, r.lp, id) EXCEPT
        !.heap[id].arrival = now,
        !.oidx = MapPut(@, id, Location(id, r.lp, r.m.heap[id].side))]

\* OrderBook::addOrder, lines 106-114, after processMatching has returned
addOrderReturn(m, id) == IF m.hang THEN m ELSE TouchOrder(publishMarketDataUpdate(m), id)

\* OrderBook::addOrder, lines 99-101: the Add update, its count read
\* through the price_level found before maintainSortedOrder
publishAdded(m, id) == publishOrderUpdate(m, "Add", id, m.oidx[id].price_level)

\* OrderBook::addOrder(order), the order stamped with the time now
addOrder(m, id, side, price, quantity, account, now) ==
    IF id \in DOMAIN m.oidx THEN [m EXCEPT !.result = "Order ID already exists"]
    ELSE addOrderReturn(
             processMatching(
                 publishAdded(
                     maintainSortedOrder(
                         restOrder(findOrCreatePriceLevel(
                                       [m EXCEPT !.heap[id] = NewOrder(side, price, quantity,
                                                                         account)],
                                       price, side),
                                   id, now)),
                     id),
                 id),
             id)

\* RiskManager::associateOrderWithAccount(id, account)
associateOrderWithAccount(accts, id, account) == MapPut(accts, id, account)

\* RiskManager::validateOrder: the size and the price of the order
withinOrderLimits(price, quantity) ==
    ~ULess(MAX_ORDER_SIZE, quantity) /\ price <= MAX_PRICE /\ price > 0

Abs(x) == IF x < 0 THEN -x ELSE x

\* RiskManager::validateOrder: the position of the account if the whole
\* order trades
withinPosition(position, side, quantity) ==
    Abs(IF side = "Buy" THEN position + quantity ELSE position - quantity) <= MAX_POSITION

\* RiskManager::validateOrder(order, portfolio)
validateOrder(side, price, quantity, position) ==
    IF withinOrderLimits(price, quantity) /\ withinPosition(position, side, quantity)
    THEN "Approved" ELSE "Rejected"

\* RiskManager::getPortfolio(account)
getPortfolio(portfolios, account) == portfolios[account]

\* OrderBook::addOrder, lines 37-60, with a risk manager: the order id is
\* associated with the account, then validateOrder answers risk_check
riskValidation(m, id, account, risk_check) ==
    IF ~m.risk THEN m
    ELSE [m EXCEPT !.accts = associateOrderWithAccount(
                                 @, id, IF account = "" THEN "default" ELSE account),
                   !.result = IF risk_check = "Rejected"
                              THEN "Risk validation failed" ELSE @]

\* OrderBook::addOrder, lines 46-53: a rejected order goes no further
addOrderValidated(m, id, side, price, quantity, account, now) ==
    IF m.result # "success" THEN m
    ELSE addOrder(m, id, side, price, quantity, account, now)

\* OrderBook::addOrder(order) of an engine built with or without a risk
\* manager
OrderBook_addOrder(m, id, side, price, quantity, account, risk_check, now) ==
    addOrderValidated(riskValidation(m, id, account, risk_check),
                      id, side, price, quantity, account, now)

\* lines 153-155 and 211-213: an empty level is removed
cleanUpEmpty(m, lp, side) ==
    IF isEmpty(Deref(m, lp)) THEN removePriceLevel(m, lp, side) ELSE TouchLevel(m, lp)

\* OrderBook::cancelOrder(id).  location refers to the element of
\* order_index_ that line 158 erases: line 161 reads it after its
\* destruction
cancelOrder(m, id) ==
    IF id \notin DOMAIN m.oidx THEN [m EXCEPT !.result = "Order not found"]
    ELSE LET location == m.oidx[id]
         IN publishMarketDataUpdate(
                [Delete([cleanUpEmpty(
                             publishOrderUpdate(
                                 PriceLevel_removeOrder(TouchOrder(m, location.order),
                                                        location.price_level,
                                                        location.order),
                                 "Remove", location.order, location.price_level),
                             location.price_level, location.side)
                            EXCEPT !.oidx = MapDrop(@, id)],
                        location.order)
                    EXCEPT !.ub = TRUE])

\* OrderBook::modifyOrder, lines 197-238: the order moves to the level of
\* new_price
modifyPrice(m, id, new_price, now) ==
    LET location == m.oidx[id]
    IN maintainSortedOrder(
           publishAdded(
               restOrder(findOrCreatePriceLevel(
                             [cleanUpEmpty(
                                  publishOrderUpdate(
                                      PriceLevel_removeOrder(m, location.price_level,
                                                             location.order),
                                      "Remove", location.order, location.price_level),
                                  location.price_level, location.side)
                                 EXCEPT !.heap[location.order].price = new_price],
                             new_price, m.heap[location.order].side),
                         location.order, now),
               location.order))

\* lines 240-260 without the reset of lines 251-253: filled_quantity stays
\* what it was when the new quantity is smaller
modifyQuantityKeepingFilled(m, id, new_quantity) ==
    IF ~ULess(0, new_quantity) THEN m
    ELSE LET current_level == m.oidx[id].price_level
             o  == m.heap[m.oidx[id].order]
             o2 == [o EXCEPT !.quantity = new_quantity]
         IN publishOrderUpdate(
                SetLevel([TouchLevel(TouchOrder(m, m.oidx[id].order), current_level)
                             EXCEPT !.heap[m.oidx[id].order] = o2],
                         current_level,
                         [Deref(m, current_level) EXCEPT
                             !.total_quantity = @ - remainingQuantity(o)
                                                  + remainingQuantity(o2)]),
                "Modify", m.oidx[id].order, current_level)

\* OrderBook::modifyOrder, lines 240-260: the quantity changes in place
modifyQuantity(m, id, new_quantity) ==
    IF ~ULess(0, new_quantity) THEN m
    ELSE LET current_level == m.oidx[id].price_level
             o  == m.heap[m.oidx[id].order]
             o2 == [o EXCEPT !.quantity = new_quantity,
                             !.filled_quantity = IF ULess(new_quantity, @)
                                                 THEN new_quantity ELSE @]
         IN publishOrderUpdate(
                SetLevel([TouchLevel(TouchOrder(m, m.oidx[id].order), current_level)
                             EXCEPT !.heap[m.oidx[id].order] = o2],
                         current_level,
                         [Deref(m, current_level) EXCEPT
                             !.total_quantity = @ - remainingQuantity(o)
                                                  + remainingQuantity(o2)]),
                "Modify", m.oidx[id].order, current_level)

\* OrderBook::modifyOrder(id, new_price, new_quantity)
modifyOrder(m, id, new_price, new_quantity, now) ==
    IF id \notin DOMAIN m.oidx THEN [m EXCEPT !.result = "Order not found"]
    ELSE publishMarketDataUpdate(
             modifyQuantity(
                 IF new_price > 0 /\ m.heap[m.oidx[id].order].price # new_price
                 THEN modifyPrice(TouchOrder(m, m.oidx[id].order), id, new_price, now)
                 ELSE TouchOrder(m, m.oidx[id].order),
                 id, new_quantity))

\* ------------------------------------------- memory nobody can reach
LevelPtrs(m, side) ==
    {m.oidx[i].price_level.idx : i \in {j \in DOMAIN m.oidx : m.oidx[j].price_level.side = side}}
    \cup {m.pidx[p].idx : p \in {x \in DOMAIN m.pidx : m.pidx[x].side = side}}

SetMax(S, d) == IF S = {} THEN d ELSE CHOOSE x \in S : \A y \in S : y <= x

Trim(m, side) ==
    LET v == Vec(m, side)
        keep == SetMax(LevelPtrs(m, side) \cup {v.size}, 0)
    IN SetVec(m, side, [v EXCEPT !.data = SubSeq(@, 1, keep)])

OrderRefs(m) ==
    {m.bids.data[i].head : i \in 1..Len(m.bids.data)}
    \cup {m.bids.data[i].tail : i \in 1..Len(m.bids.data)}
    \cup {m.asks.data[i].head : i \in 1..Len(m.asks.data)}
    \cup {m.asks.data[i].tail : i \in 1..Len(m.asks.data)}
    \cup {m.heap[i].prev : i \in {j \in Ids : m.heap[j].st # "none"}}
    \cup {m.heap[i].next : i \in {j \in Ids : m.heap[j].st # "none"}}
    \cup {m.oidx[i].order : i \in DOMAIN m.oidx}

RECURSIVE Collect(_, _)
Collect(m, n) ==
    LET refs == OrderRefs(m)
        dead == {i \in Ids : m.heap[i].st = "freed" /\ i \notin refs}
    IN IF dead = {} \/ n = 0 THEN m
       ELSE Collect([m EXCEPT !.heap = [i \in Ids |-> IF i \in dead THEN NoOrder ELSE @[i]]],
                    n - 1)

\* storage past the end of a vector that no pointer reaches, and freed
\* orders that no pointer reaches, cannot be read again
Normalize(m) == Collect(Trim(Trim(m, "Buy"), "Sell"), MaxId)

\* ------------------------------------------------------------ state machine
\* the members of a second OrderBook of the process, built or not; it has a
\* publisher of its own, no risk manager and no logger
NoEngine ==
    [built |-> FALSE, bids |-> EmptyVec, asks |-> EmptyVec, pidx |-> <<>>, oidx |-> <<>>,
     heap |-> [i \in Ids |-> NoOrder], seq |-> 0]

\* a thread outside addOrder: pc is the line of addOrder it is at, lp the
\* local price_level
NoThread ==
    [pc |-> "idle", id |-> 0, side |-> "Buy", price |-> 0, quantity |-> 0,
     lp |-> [side |-> "Buy", idx |-> 0], result |-> "none"]

ThreadIds == 1..2

NoThreads == [t \in ThreadIds |-> NoThread]

Machine(tie) ==
    [bids |-> bids_, asks |-> asks_, pidx |-> price_index_, oidx |-> order_index_,
     heap |-> heap, risk |-> risk_manager_, accts |-> order_accounts,
     portfolios |-> portfolios_,
     md |-> market_data_, bseq |-> book_sequence, seq |-> sequence_, events |-> <<>>,
     tctr |-> trade_counter,
     trades |-> <<>>, ub |-> FALSE, hang |-> FALSE, result |-> "success",
     tie |-> tie]

HasEqualPrices(v) == Cardinality(LevelPrices(v)) < v.size

\* std::sort may leave equal elements in either order
Ties(r) ==
    IF \/ HasEqualPrices(bids_) \/ HasEqualPrices(asks_)
       \/ HasEqualPrices(r.bids) \/ HasEqualPrices(r.asks)
    THEN {FALSE, TRUE} ELSE {FALSE}

\* the book as a caller sees it: the levels of each side from the best one,
\* the ids in order_index_, the best prices, and the numbers given to events
Summary ==
    [depth |-> getDepth(bids_, asks_, MaxId), index |-> DOMAIN order_index_,
     prices |-> getBestPrices(bids_, asks_),
     book_sequence |-> book_sequence, sequence |-> sequence_]

\* prior is the Summary taken when the last call began, kept for addOrder
\* and modifyOrder
NoSummary ==
    [depth |-> NoDepth, index |-> {}, prices |-> NoPrices, book_sequence |-> 0,
     sequence |-> 0]

\* the last call: its arguments, what it returned, the order of that id and
\* whether the id was in order_index_ before the call
NoCall == [op |-> "none", id |-> 0, side |-> "Buy", price |-> 0, quantity |-> 0,
           type |-> "Limit", tif |-> "GTC", account |-> "", result |-> "none",
           before |-> NoOrder, indexed |-> FALSE]

Call(op, id, side, price, quantity) ==
    [op |-> op, id |-> id, side |-> side, price |-> price, quantity |-> quantity,
     type |-> "Limit", tif |-> "GTC", account |-> "", result |-> "success",
     before |-> heap[id], indexed |-> id \in DOMAIN order_index_]

\* the record of a call that returned result: of a call that returned an
\* error before it read its other arguments, the id and the account
Returned(call, result) ==
    IF result = "success" THEN [call EXCEPT !.result = result]
    ELSE [NoCall EXCEPT !.op = call.op, !.id = call.id, !.account = call.account,
                        !.result = result, !.before = call.before,
                        !.indexed = call.indexed]

\* the net positions after the trades ts: each trade adds its quantity to
\* the account of its buy order and takes it from the account of its sell
\* order
RECURSIVE Executed(_, _)
Executed(n, ts) ==
    IF ts = <<>> THEN n
    ELSE Executed([a \in AccountNames |->
                      n[a]
                      + (IF a = AccountName(Head(ts).buy_account) THEN Head(ts).quantity
                                                                  ELSE 0)
                      - (IF a = AccountName(Head(ts).sell_account) THEN Head(ts).quantity
                                                                   ELSE 0)],
                  Tail(ts))

\* the call returns and leaves the state n, or never returns (the matching
\* loop does not end), or undefined behaviour stops the process
Commit(r, n) ==
    \E crash \in (IF r.ub THEN {FALSE, TRUE} ELSE {FALSE}) :
        IF crash
        THEN /\ pc' = "crashed"
             /\ ub' = TRUE
             /\ trades' = <<>>
             /\ events' = <<>>
             /\ UNCHANGED <<bids_, asks_, price_index_, order_index_, heap,
                            order_accounts, portfolios_, net, book_sequence, sequence_,
                            trade_counter>>
        ELSE /\ pc' = IF r.hang THEN "hung" ELSE "ready"
             /\ ub' = (ub \/ r.ub)
             /\ trades' = r.trades
             /\ bids_' = n.bids
             /\ asks_' = n.asks
             /\ price_index_' = n.pidx
             /\ order_index_' = n.oidx
             /\ heap' = n.heap
             /\ order_accounts' = n.accts
             /\ portfolios_' = n.portfolios
             /\ net' = Executed(net, r.trades)
             /\ book_sequence' = r.bseq
             /\ trade_counter' = r.tctr
             /\ sequence_' = r.seq
             /\ events' = r.events

Init ==
    /\ bids_ = EmptyVec
    /\ asks_ = EmptyVec
    /\ price_index_ = <<>>
    /\ order_index_ = <<>>
    /\ heap = [i \in Ids |-> NoOrder]
    /\ risk_manager_ = FALSE
    /\ order_accounts = <<>>
    /\ portfolios_ = NoPositions
    /\ net = NoPositions
    /\ market_data_ = FALSE
    /\ book_sequence = 0
    /\ trade_counter = 1
    /\ other = NoEngine
    /\ threads = NoThreads
    /\ sequence_ = 0
    /\ events = <<>>
    /\ trades = <<>>
    /\ last = NoCall
    /\ prior = NoSummary
    /\ nops = 0
    /\ ub = FALSE
    /\ pc = "ready"

\* a new order takes the least id not in use: ids are opaque to the engine
FreshId == CHOOSE id \in Ids :
    /\ heap[id].st = "none"
    /\ \A j \in Ids : heap[j].st = "none" => id <= j

\* addOrder of an id that is not resident (line 63 does not return early)
AddOrder ==
    /\ pc = "ready" /\ nops < MaxOps
    /\ \E id \in Ids : heap[id].st = "none"
    /\ \E side \in Sides, price \in Prices, quantity \in Qtys :
        \E r0 \in {addOrder(Machine(FALSE), FreshId, side, price, quantity, "", nops + 1)} :
            \E tie \in Ties(r0) :
                \E r \in {IF tie THEN addOrder(Machine(TRUE), FreshId, side, price,
                                               quantity, "", nops + 1)
                                  ELSE r0} :
                    /\ Commit(r, Normalize(r))
                    /\ last' = Returned(Call("add", FreshId, side, price, quantity),
                                         r.result)
    /\ prior' = Summary
    /\ nops' = nops + 1
    /\ UNCHANGED <<risk_manager_, market_data_, other, threads>>

\* cancelOrder of a resident id (line 127 does not return early)
CancelOrder ==
    /\ pc = "ready" /\ nops < MaxOps
    /\ \E id \in DOMAIN order_index_ :
        \E r0 \in {cancelOrder(Machine(FALSE), id)} :
            \E tie \in Ties(r0) :
                \E r \in {IF tie THEN cancelOrder(Machine(TRUE), id) ELSE r0} :
                    /\ Commit(r, Normalize(r))
                    /\ last' = Returned(Call("cancel", id, "Buy", 0, 0), r.result)
    /\ prior' = NoSummary
    /\ nops' = nops + 1
    /\ UNCHANGED <<risk_manager_, market_data_, other, threads>>

\* modifyOrder of a resident id (line 186 does not return early)
ModifyOrder ==
    /\ pc = "ready" /\ nops < MaxOps
    /\ \E id \in DOMAIN order_index_, new_price \in 0..MaxPrice, new_quantity \in 0..MaxQty :
        \E r0 \in {modifyOrder(Machine(FALSE), id, new_price, new_quantity, nops + 1)} :
            \E tie \in Ties(r0) :
                \E r \in {IF tie THEN modifyOrder(Machine(TRUE), id, new_price,
                                                  new_quantity, nops + 1)
                                  ELSE r0} :
                    /\ Commit(r, Normalize(r))
                    /\ last' = Returned(Call("modify", id, "Buy", new_price, new_quantity),
                                         r.result)
    /\ prior' = Summary
    /\ nops' = nops + 1
    /\ UNCHANGED <<risk_manager_, market_data_, other, threads>>

Next == AddOrder \/ CancelOrder \/ ModifyOrder

Spec == Init /\ [][Next]_vars

\* ------------------------------------------- the whole public interface
\* the engine is built with or without a risk manager
InitApi ==
    /\ bids_ = EmptyVec
    /\ asks_ = EmptyVec
    /\ price_index_ = <<>>
    /\ order_index_ = <<>>
    /\ heap = [i \in Ids |-> NoOrder]
    /\ risk_manager_ \in BOOLEAN
    /\ order_accounts = <<>>
    /\ portfolios_ = NoPositions
    /\ net = NoPositions
    /\ market_data_ = FALSE
    /\ book_sequence = 0
    /\ trade_counter = 1
    /\ other = NoEngine
    /\ threads = NoThreads
    /\ sequence_ = 0
    /\ events = <<>>
    /\ trades = <<>>
    /\ last = NoCall
    /\ prior = NoSummary
    /\ nops = 0
    /\ ub = FALSE
    /\ pc = "ready"

\* calls made on an engine without and with a risk manager
ApiOps == IF risk_manager_ THEN MaxRiskOps ELSE MaxApiOps

\* what only an engine with a risk manager reads of a call
AccountsRead == IF risk_manager_ THEN Accounts ELSE {""}

RiskChecks == IF risk_manager_ THEN {"Approved", "Rejected"} ELSE {"Approved"}

\* the ids a caller submits: an id in order_index_ or the least unused id
SubmitIds == DOMAIN order_index_ \cup {id \in Ids : heap[id].st = "none" /\ id = FreshId}

\* addOrder of any order: any type and tif, a quantity of 0, an id that is
\* resident
SubmitOrder ==
    /\ pc = "ready" /\ nops < ApiOps
    /\ \E id \in SubmitIds, side \in Sides, price \in Prices, quantity \in 0..MaxQty,
          account \in AccountsRead, risk_check \in RiskChecks :
        \E r0 \in {OrderBook_addOrder(Machine(FALSE), id, side, price, quantity,
                                      account, risk_check, nops + 1)} :
            \E tie \in Ties(r0) :
                \E r \in {IF tie THEN OrderBook_addOrder(Machine(TRUE), id, side, price,
                                                         quantity, account, risk_check,
                                                         nops + 1)
                                  ELSE r0} :
                    /\ Commit(r, Normalize(r))
                    /\ \E type \in Types, tif \in Tifs :
                        last' = Returned([Call("add", id, side, price, quantity)
                                             EXCEPT !.type = type, !.tif = tif,
                                                    !.account = account],
                                         r.result)
    /\ prior' = Summary
    /\ nops' = nops + 1
    /\ UNCHANGED <<risk_manager_, market_data_, other, threads>>

\* cancelOrder of any id
CancelAnyOrder ==
    /\ pc = "ready" /\ nops < ApiOps
    /\ \E id \in Ids :
        \E r0 \in {cancelOrder(Machine(FALSE), id)} :
            \E tie \in Ties(r0) :
                \E r \in {IF tie THEN cancelOrder(Machine(TRUE), id) ELSE r0} :
                    /\ Commit(r, Normalize(r))
                    /\ last' = Returned(Call("cancel", id, "Buy", 0, 0), r.result)
    /\ prior' = NoSummary
    /\ nops' = nops + 1
    /\ UNCHANGED <<risk_manager_, market_data_, other, threads>>

\* modifyOrder of any id
ModifyAnyOrder ==
    /\ pc = "ready" /\ nops < ApiOps
    /\ \E id \in Ids, new_price \in 0..MaxPrice, new_quantity \in 0..MaxQty :
        \E r0 \in {modifyOrder(Machine(FALSE), id, new_price, new_quantity, nops + 1)} :
            \E tie \in Ties(r0) :
                \E r \in {IF tie THEN modifyOrder(Machine(TRUE), id, new_price,
                                                  new_quantity, nops + 1)
                                  ELSE r0} :
                    /\ Commit(r, Normalize(r))
                    /\ last' = Returned(Call("modify", id, "Buy", new_price, new_quantity),
                                         r.result)
    /\ prior' = Summary
    /\ nops' = nops + 1
    /\ UNCHANGED <<risk_manager_, market_data_, other, threads>>

NextApi == SubmitOrder \/ CancelAnyOrder \/ ModifyAnyOrder

SpecApi == InitApi /\ [][NextApi]_vars

\* ------------------------------------- the engine with its risk manager
\* the engine is built with a risk manager of the limits MAX_ORDER_SIZE,
\* MAX_PRICE and MAX_POSITION
InitRisk ==
    /\ bids_ = EmptyVec
    /\ asks_ = EmptyVec
    /\ price_index_ = <<>>
    /\ order_index_ = <<>>
    /\ heap = [i \in Ids |-> NoOrder]
    /\ risk_manager_ = TRUE
    /\ order_accounts = <<>>
    /\ portfolios_ = NoPositions
    /\ net = NoPositions
    /\ market_data_ = FALSE
    /\ book_sequence = 0
    /\ trade_counter = 1
    /\ other = NoEngine
    /\ threads = NoThreads
    /\ sequence_ = 0
    /\ events = <<>>
    /\ trades = <<>>
    /\ last = NoCall
    /\ prior = NoSummary
    /\ nops = 0
    /\ ub = FALSE
    /\ pc = "ready"

\* the prices and quantities submitted to it: within and beyond its limits
LedgerPrices == 0..(MAX_PRICE + 1)

LedgerQtys == 1..(MAX_ORDER_SIZE + 1)

\* the record of an addOrder that returned result: the risk manager has
\* read the order it rejects
Validated(call, result) ==
    IF result = "Risk validation failed" THEN [call EXCEPT !.result = result]
    ELSE Returned(call, result)

\* addOrder of any order; validateOrder answers for the portfolio of the
\* order's account
ValidateAndSubmit ==
    /\ pc = "ready" /\ nops < MaxLedgerOps
    /\ \E id \in SubmitIds, side \in Sides, price \in LedgerPrices, quantity \in LedgerQtys,
          account \in Accounts :
        \E risk_check \in {validateOrder(side, price, quantity,
                                          getPortfolio(portfolios_, AccountName(account)))} :
        \E r0 \in {OrderBook_addOrder(Machine(FALSE), id, side, price, quantity,
                                      account, risk_check, nops + 1)} :
            \E tie \in Ties(r0) :
                \E r \in {IF tie THEN OrderBook_addOrder(Machine(TRUE), id, side, price,
                                                         quantity, account, risk_check,
                                                         nops + 1)
                                  ELSE r0} :
                    /\ Commit(r, Normalize(r))
                    /\ \E type \in Types :
                        last' = Validated([Call("add", id, side, price, quantity)
                                              EXCEPT !.type = type, !.account = account],
                                          r.result)
    /\ prior' = Summary
    /\ nops' = nops + 1
    /\ UNCHANGED <<risk_manager_, market_data_, other, threads>>

\* cancelOrder of a resident id
CancelResident ==
    /\ pc = "ready" /\ nops < MaxLedgerOps
    /\ \E id \in DOMAIN order_index_ :
        \E r0 \in {cancelOrder(Machine(FALSE), id)} :
            \E tie \in Ties(r0) :
                \E r \in {IF tie THEN cancelOrder(Machine(TRUE), id) ELSE r0} :
                    /\ Commit(r, Normalize(r))
                    /\ last' = Returned(Call("cancel", id, "Buy", 0, 0), r.result)
    /\ prior' = NoSummary
    /\ nops' = nops + 1
    /\ UNCHANGED <<risk_manager_, market_data_, other, threads>>

\* modifyOrder of a resident id
ModifyResident ==
    /\ pc = "ready" /\ nops < MaxLedgerOps
    /\ \E id \in DOMAIN order_index_, new_price \in LedgerPrices,
          new_quantity \in {0} \cup LedgerQtys :
        \E r0 \in {modifyOrder(Machine(FALSE), id, new_price, new_quantity, nops + 1)} :
            \E tie \in Ties(r0) :
                \E r \in {IF tie THEN modifyOrder(Machine(TRUE), id, new_price,
                                                  new_quantity, nops + 1)
                                  ELSE r0} :
                    /\ Commit(r, Normalize(r))
                    /\ last' = Returned(Call("modify", id, "Buy", new_price, new_quantity),
                                         r.result)
    /\ prior' = Summary
    /\ nops' = nops + 1
    /\ UNCHANGED <<risk_manager_, market_data_, other, threads>>

NextRisk == ValidateAndSubmit \/ CancelResident \/ ModifyResident

SpecRisk == InitRisk /\ [][NextRisk]_vars

\* ------------------------------------- the engine with its publisher
\* the engine is built with a market data publisher and no risk manager
InitFeed ==
    /\ bids_ = EmptyVec
    /\ asks_ = EmptyVec
    /\ price_index_ = <<>>
    /\ order_index_ = <<>>
    /\ heap = [i \in Ids |-> NoOrder]
    /\ risk_manager_ = FALSE
    /\ order_accounts = <<>>
    /\ portfolios_ = NoPositions
    /\ net = NoPositions
    /\ market_data_ = TRUE
    /\ book_sequence = 0
    /\ trade_counter = 1
    /\ other = NoEngine
    /\ threads = NoThreads
    /\ sequence_ = 0
    /\ events = <<>>
    /\ trades = <<>>
    /\ last = NoCall
    /\ prior = NoSummary
    /\ nops = 0
    /\ ub = FALSE
    /\ pc = "ready"

SpecFeed == InitFeed /\ [][Next]_vars

\* ------------------------------------------- two engines in one process
MaxTwoOps == 3

\* the process has built two engines, each with a publisher of its own
InitTwo ==
    /\ bids_ = EmptyVec
    /\ asks_ = EmptyVec
    /\ price_index_ = <<>>
    /\ order_index_ = <<>>
    /\ heap = [i \in Ids |-> NoOrder]
    /\ risk_manager_ = FALSE
    /\ order_accounts = <<>>
    /\ portfolios_ = NoPositions
    /\ net = NoPositions
    /\ market_data_ = TRUE
    /\ book_sequence = 0
    /\ trade_counter = 1
    /\ other = [NoEngine EXCEPT !.built = TRUE]
    /\ threads = NoThreads
    /\ sequence_ = 0
    /\ events = <<>>
    /\ trades = <<>>
    /\ last = NoCall
    /\ prior = NoSummary
    /\ nops = 0
    /\ ub = FALSE
    /\ pc = "ready"

\* the second engine as the operations see it: its own members, and the
\* statics of publishBookUpdate and executeTrade, which the process has once
OtherMachine(tie) ==
    [bids |-> other.bids, asks |-> other.asks, pidx |-> other.pidx, oidx |-> other.oidx,
     heap |-> other.heap, risk |-> FALSE, accts |-> <<>>, portfolios |-> NoPositions,
     md |-> TRUE, bseq |-> book_sequence, seq |-> other.seq, events |-> <<>>,
     tctr |-> trade_counter,
     trades |-> <<>>, ub |-> FALSE, hang |-> FALSE, result |-> "success",
     tie |-> tie]

OtherTies(r) ==
    IF \/ HasEqualPrices(other.bids) \/ HasEqualPrices(other.asks)
       \/ HasEqualPrices(r.bids) \/ HasEqualPrices(r.asks)
    THEN {FALSE, TRUE} ELSE {FALSE}

\* a call on the second engine returns (or the process stops in it)
CommitOther(r, n) ==
    \E crash \in (IF r.ub THEN {FALSE, TRUE} ELSE {FALSE}) :
        IF crash
        THEN /\ pc' = "crashed"
             /\ ub' = TRUE
             /\ UNCHANGED <<other, book_sequence, trade_counter>>
        ELSE /\ pc' = IF r.hang THEN "hung" ELSE "ready"
             /\ ub' = (ub \/ r.ub)
             /\ other' = [other EXCEPT !.bids = n.bids, !.asks = n.asks, !.pidx = n.pidx,
                                       !.oidx = n.oidx, !.heap = n.heap, !.seq = r.seq]
             /\ book_sequence' = r.bseq
             /\ trade_counter' = r.tctr

\* what a call on the second engine leaves alone
FirstUnchanged ==
    UNCHANGED <<bids_, asks_, price_index_, order_index_, heap, risk_manager_,
                order_accounts, portfolios_, net, market_data_, sequence_, events,
                threads, trades, last, prior>>

OtherFreshId == CHOOSE id \in Ids :
    /\ other.heap[id].st = "none"
    /\ \A j \in Ids : other.heap[j].st = "none" => id <= j

\* the prices and quantities of the orders given to the second engine
OtherPrices == 1..2

OtherQtys == 1..1

\* addOrder on the second engine
OtherAddOrder ==
    /\ pc = "ready" /\ nops < MaxTwoOps /\ other.built
    /\ \E id \in Ids : other.heap[id].st = "none"
    /\ \E side \in Sides, price \in OtherPrices, quantity \in OtherQtys :
        \E r0 \in {addOrder(OtherMachine(FALSE), OtherFreshId, side, price, quantity, "",
                            nops + 1)} :
            \E tie \in OtherTies(r0) :
                \E r \in {IF tie THEN addOrder(OtherMachine(TRUE), OtherFreshId, side,
                                               price, quantity, "", nops + 1)
                                  ELSE r0} :
                    CommitOther(r, Normalize(r))
    /\ nops' = nops + 1
    /\ FirstUnchanged

\* cancelOrder on the second engine
OtherCancelOrder ==
    /\ pc = "ready" /\ nops < MaxTwoOps /\ other.built
    /\ \E id \in DOMAIN other.oidx :
        \E r0 \in {cancelOrder(OtherMachine(FALSE), id)} :
            \E tie \in OtherTies(r0) :
                \E r \in {IF tie THEN cancelOrder(OtherMachine(TRUE), id) ELSE r0} :
                    CommitOther(r, Normalize(r))
    /\ nops' = nops + 1
    /\ FirstUnchanged

\* modifyOrder on the second engine
OtherModifyOrder ==
    /\ pc = "ready" /\ nops < MaxTwoOps /\ other.built
    /\ \E id \in DOMAIN other.oidx, new_price \in OtherPrices, new_quantity \in OtherQtys :
        \E r0 \in {modifyOrder(OtherMachine(FALSE), id, new_price, new_quantity,
                               nops + 1)} :
            \E tie \in OtherTies(r0) :
                \E r \in {IF tie THEN modifyOrder(OtherMachine(TRUE), id, new_price,
                                                  new_quantity, nops + 1)
                                  ELSE r0} :
                    CommitOther(r, Normalize(r))
    /\ nops' = nops + 1
    /\ FirstUnchanged

\* the calls on the first engine
FirstAddOrder == nops < MaxTwoOps /\ AddOrder

FirstCancelOrder == nops < MaxTwoOps /\ CancelOrder

FirstModifyOrder == nops < MaxTwoOps /\ ModifyOrder

NextTwo ==
    \/ FirstAddOrder \/ FirstCancelOrder \/ FirstModifyOrder
    \/ OtherAddOrder \/ OtherCancelOrder \/ OtherModifyOrder

SpecTwo == InitTwo /\ [][NextTwo]_vars

\* ------------------------------------------ a subscriber that throws
MaxThrowOps == 3

\* the events of addOrder at which the subscriber of the call may throw
ThrowPoints == {"Add", "BestPrices"}

\* MarketDataFeed::publishUpdate, lines 15-17: the callbacks are called in
\* a plain loop, so an exception of a callback leaves the publisher, and
\* OrderBook.cpp has no handler: it leaves addOrder at the publish call
subscriberThrows(m) == [m EXCEPT !.result = "exception"]

\* OrderBook::addOrder, lines 62-100, left by the exception at line 100:
\* the order is in its level and in order_index_, processMatching (line
\* 103) is not reached
addOrderThrowAtAdd(m, id, side, price, quantity, now) ==
    subscriberThrows(
        publishAdded(
            maintainSortedOrder(
                restOrder(findOrCreatePriceLevel(
                              [m EXCEPT !.heap[id] = NewOrder(side, price, quantity, "")],
                              price, side),
                          id, now)),
            id))

\* publishMarketDataUpdate, line 516, throws: publishDepth (line 520) and
\* the rest of addOrder are not reached
throwAtBestPrices(m) ==
    IF m.hang THEN m
    ELSE subscriberThrows(publishBestPrices(m, getBestPrices(m.bids, m.asks)))

\* OrderBook::addOrder, lines 62-106, left by the exception at line 106
addOrderThrowAtBestPrices(m, id, side, price, quantity, now) ==
    throwAtBestPrices(
        processMatching(
            publishAdded(
                maintainSortedOrder(
                    restOrder(findOrCreatePriceLevel(
                                  [m EXCEPT !.heap[id] = NewOrder(side, price, quantity,
                                                                    "")],
                                  price, side),
                              id, now)),
                id),
            id))

addOrderThrowing(m, at, id, side, price, quantity, now) ==
    IF at = "Add" THEN addOrderThrowAtAdd(m, id, side, price, quantity, now)
    ELSE addOrderThrowAtBestPrices(m, id, side, price, quantity, now)

\* the record of a call that an exception left
Thrown(call, result) ==
    IF result = "exception" THEN [call EXCEPT !.result = "exception"]
    ELSE Returned(call, result)

\* addOrder of an id that is not resident while a subscriber throws at the
\* event at; the caller catches the exception and goes on
AddOrderSubscriberThrows ==
    /\ pc = "ready" /\ nops < MaxThrowOps
    /\ \E id \in Ids : heap[id].st = "none"
    /\ \E side \in Sides, price \in Prices, quantity \in Qtys, at \in ThrowPoints :
        \E r0 \in {addOrderThrowing(Machine(FALSE), at, FreshId, side, price, quantity,
                                    nops + 1)} :
            \E tie \in Ties(r0) :
                \E r \in {IF tie THEN addOrderThrowing(Machine(TRUE), at, FreshId, side,
                                                       price, quantity, nops + 1)
                                  ELSE r0} :
                    /\ Commit(r, Normalize(r))
                    /\ last' = Thrown(Call("add", FreshId, side, price, quantity),
                                       r.result)
    /\ prior' = Summary
    /\ nops' = nops + 1
    /\ UNCHANGED <<risk_manager_, market_data_, other, threads>>

ThrowAddOrder == nops < MaxThrowOps /\ AddOrder

ThrowCancelOrder == nops < MaxThrowOps /\ CancelOrder

ThrowModifyOrder == nops < MaxThrowOps /\ ModifyOrder

NextThrow ==
    ThrowAddOrder \/ ThrowCancelOrder \/ ThrowModifyOrder \/ AddOrderSubscriberThrows

SpecThrow == InitFeed /\ [][NextThrow]_vars

\* ------------------------------- threads that call addOrder together
\* runMultiThreadedTest: thread t gives addOrder the order ids from
\* t * orders_per_thread + 1 on; here each thread makes one call
ThreadOrderId(t) == t

\* another thread is inside addOrder: whatever t reads or writes in the
\* members of the engine is a data race
Racing(t) == \E u \in ThreadIds \ {t} : threads[u].pc \notin {"idle", "done"}

ThreadMachine(t, tie) == [Machine(tie) EXCEPT !.ub = Racing(t)]

\* one thread has taken a step of addOrder and left r
CommitThread(r, t, th) ==
    /\ Commit(r, r)
    /\ threads' = [threads EXCEPT ![t] = th]
    /\ nops' = nops + 1
    /\ prior' = prior
    /\ UNCHANGED <<risk_manager_, market_data_, other>>

\* OrderBook::addOrder, lines 63-84: the id is not in order_index_, the
\* order is copied, findOrCreatePriceLevel answers the local price_level
ThreadFindLevel(t) ==
    /\ pc = "ready" /\ threads[t].pc = "idle"
    /\ \E side \in Sides, price \in Prices, quantity \in Qtys :
        \E r \in {findOrCreatePriceLevel(
                      [ThreadMachine(t, FALSE) EXCEPT
                          !.heap[ThreadOrderId(t)] = NewOrder(side, price, quantity, "")],
                      price, side)} :
            CommitThread(r.m, t,
                         [NoThread EXCEPT !.pc = "found", !.id = ThreadOrderId(t),
                                          !.side = side, !.price = price,
                                          !.quantity = quantity, !.lp = r.lp])
    /\ last' = last

\* lines 87-94: the order joins *price_level and order_index_
ThreadRestOrder(t) ==
    /\ pc = "ready" /\ threads[t].pc = "found"
    /\ CommitThread(restOrder([m |-> ThreadMachine(t, FALSE), lp |-> threads[t].lp],
                              threads[t].id, nops + 1),
                    t, [threads[t] EXCEPT !.pc = "rested"])
    /\ last' = last

\* line 97: maintainSortedOrder
ThreadSortLevels(t) ==
    /\ pc = "ready" /\ threads[t].pc = "rested"
    /\ \E tie \in BOOLEAN :
        CommitThread(maintainSortedOrder(ThreadMachine(t, tie)), t,
                     [threads[t] EXCEPT !.pc = "sorted"])
    /\ last' = last

\* lines 100-114: the Add update with the count of *price_level,
\* processMatching, publishMarketDataUpdate and the return
ThreadMatch(t) ==
    /\ pc = "ready" /\ threads[t].pc = "sorted"
    /\ \E tie \in BOOLEAN :
        \E r \in {addOrderReturn(
                      processMatching(
                          publishOrderUpdate(ThreadMachine(t, tie), "Add", threads[t].id,
                                             threads[t].lp),
                          threads[t].id),
                      threads[t].id)} :
            /\ CommitThread(r, t, [threads[t] EXCEPT !.pc = "done", !.result = r.result])
            /\ last' = Returned(Call("add", threads[t].id, threads[t].side,
                                      threads[t].price, threads[t].quantity),
                                 r.result)

NextThreads ==
    \E t \in ThreadIds :
        ThreadFindLevel(t) \/ ThreadRestOrder(t) \/ ThreadSortLevels(t) \/ ThreadMatch(t)

SpecThreads == Init /\ [][NextThreads]_vars

\* ------------------------------------------------------------ observations
\* the ids queued in some level of either ladder
AllQueued ==
    UNION ({SeqToSet(Queue(heap, bids_.data[i])) : i \in 1..bids_.size}
           \cup {SeqToSet(Queue(heap, asks_.data[i])) : i \in 1..asks_.size})

RECURSIVE SumRemaining(_, _)
SumRemaining(h, q) ==
    IF q = <<>> THEN 0 ELSE remainingQuantity(h[Head(q)]) + SumRemaining(h, Tail(q))

RECURSIVE SumTraded(_)
SumTraded(ts) == IF ts = <<>> THEN 0 ELSE Head(ts).quantity + SumTraded(Tail(ts))

\* ------------------------------------------------------------------ claims
\* C1: after any addOrder, cancelOrder or modifyOrder has returned, when a
\* best bid and a best ask both exist the best bid is below the best ask:
\* the book is never observably crossed
C1_NeverCrossed ==
    (pc = "ready" /\ bestBid(bids_) # 0 /\ bestAsk(asks_) # 0)
        => bestBid(bids_) < bestAsk(asks_)

\* C2: price priority.  Every trade executes against the best opposite level
\* of that moment: no maker trades while a maker with quantity left rests at
\* a better price on its side
C2_PricePriority ==
    \A i \in 1..Len(trades) : trades[i].better_makers = {}

\* C3: time priority.  The maker of every trade is the head of its level, a
\* resident order, and no order of the level joined it earlier; a queue
\* holds its orders in the order they joined it, the latest at the tail
C3_TimePriority ==
    /\ \A i \in 1..Len(trades) :
        /\ trades[i].maker_order.st = "live"
        /\ trades[i].level_head = trades[i].maker
        /\ trades[i].earlier_in_level = {}
    /\ pc = "ready" =>
        \A s \in Sides : \A i \in 1..Vec(Machine(FALSE), s).size :
            LET q == Queue(heap, Vec(Machine(FALSE), s).data[i])
            IN \A j, k \in 1..Len(q) : j < k => heap[q[j]].arrival < heap[q[k]].arrival

\* C4: a trade's price is the price of the maker's level, its quantity is
\* min(taker remaining, maker remaining) and is positive, and it raises the
\* filled quantity of the taker and of the maker by exactly that quantity
C4_TradeTerms ==
    \A i \in 1..Len(trades) :
        LET t == trades[i]
        IN /\ t.price = t.level_price
           /\ t.price = t.maker_order.price
           /\ t.quantity = UMin(remainingQuantity(t.taker_order),
                                remainingQuantity(t.maker_order))
           /\ ULess(0, t.quantity)
           /\ t.taker_after.filled_quantity = t.taker_order.filled_quantity + t.quantity
           /\ t.maker_after.filled_quantity = t.maker_order.filled_quantity + t.quantity

\* C5: a buy never trades above its limit price and a sell never below its
\* limit price, as taker or as maker
C5_LimitRespected ==
    \A i \in 1..Len(trades) :
        LET t == trades[i]
        IN /\ t.taker_order.side = "Buy" => t.price <= t.taker_order.price
           /\ t.taker_order.side = "Sell" => t.price >= t.taker_order.price
           /\ t.maker_order.side = "Buy" => t.price <= t.maker_order.price
           /\ t.maker_order.side = "Sell" => t.price >= t.maker_order.price

\* C6: order_index_ holds exactly the ids queued in some level: every id of
\* the index is a queued order with quantity left (no filled or cancelled
\* order stays), and every queued order is in the index
C6_IndexExact ==
    pc = "ready" =>
        /\ DOMAIN order_index_ = AllQueued
        /\ \A id \in DOMAIN order_index_ :
            /\ heap[id].st = "live"
            /\ ULess(0, remainingQuantity(heap[id]))

\* C7: every level's total_quantity is the sum of the remaining quantities
\* of its queue and its order_count is the length of its queue
C7_LevelAggregates ==
    pc = "ready" =>
        \A s \in Sides : \A i \in 1..Vec(Machine(FALSE), s).size :
            LET lv == Vec(Machine(FALSE), s).data[i]
            IN /\ lv.total_quantity = SumRemaining(heap, Queue(heap, lv))
               /\ lv.order_count = Len(Queue(heap, lv))

\* C8: bids_ ascends and asks_ descends strictly in price, so that the best
\* level is at the back and no price occurs twice, and no level is empty
C8_LaddersSorted ==
    pc = "ready" =>
        /\ \A i \in 1..(bids_.size - 1) : bids_.data[i].price < bids_.data[i + 1].price
        /\ \A i \in 1..(asks_.size - 1) : asks_.data[i].price > asks_.data[i + 1].price
        /\ \A i \in 1..bids_.size : ~isEmpty(bids_.data[i])
        /\ \A i \in 1..asks_.size : ~isEmpty(asks_.data[i])

\* C9: 0 <= filled_quantity <= quantity for every resident order
C9_FilledWithinQuantity ==
    pc = "ready" =>
        \A id \in DOMAIN order_index_ \cup AllQueued :
            heap[id].st = "live" =>
                /\ heap[id].filled_quantity >= 0
                /\ ~ULess(heap[id].quantity, heap[id].filled_quantity)

\* modifyOrder has lowered the quantity of a resident order below what was
\* filled of it, and has returned
C9_LoweredBelowFilled ==
    /\ pc = "ready"
    /\ last.op = "modify"
    /\ last.id \in DOMAIN order_index_
    /\ ULess(0, last.quantity)
    /\ ULess(last.quantity, last.before.filled_quantity)
    /\ heap[last.id].quantity = last.quantity

\* C10: an incoming order that matching filled completely is in no level and
\* not in order_index_ once addOrder has returned
C10_FilledTakerGone ==
    (pc = "ready" /\ last.op = "add" /\ SumTraded(trades) = last.quantity)
        => /\ last.id \notin DOMAIN order_index_
           /\ last.id \notin AllQueued

\* ---------------------------------------------- observations of C11 to C20
Ladder(s) == IF s = "Buy" THEN bids_ ELSE asks_

Crossable(side, limit, p) == IF side = "Buy" THEN p <= limit ELSE p >= limit

\* the quantity queued in the levels i.. of the ladder v that an order of
\* side `side` and price `limit` can trade with
RECURSIVE Available(_, _, _, _)
Available(v, i, side, limit) ==
    IF i > v.size THEN 0
    ELSE (IF Crossable(side, limit, v.data[i].price)
          THEN SumRemaining(heap, Queue(heap, v.data[i])) ELSE 0)
         + Available(v, i + 1, side, limit)

\* the orders with quantity left that wait in the ladder of side s
Waiting(s) ==
    {o \in UNION {SeqToSet(Queue(heap, Ladder(s).data[i])) : i \in 1..Ladder(s).size} :
        heap[o].st = "live" /\ ULess(0, remainingQuantity(heap[o]))}

\* the levels of both ladders: price, aggregates and queue
LevelViews ==
    UNION {{[side |-> s, price |-> Ladder(s).data[i].price,
             total_quantity |-> Ladder(s).data[i].total_quantity,
             order_count |-> Ladder(s).data[i].order_count,
             queue |-> Queue(heap, Ladder(s).data[i])] : i \in 1..Ladder(s).size}
           : s \in Sides}

\* the resident orders of side s: queued in a level and in order_index_
ResidentOf(s) ==
    {o \in AllQueued \cap DOMAIN order_index_ : heap[o].st = "live" /\ heap[o].side = s}

SetMin(S, d) == IF S = {} THEN d ELSE CHOOSE x \in S : \A y \in S : x <= y

\* the book and the risk manager's associations are what they were
BookUnchanged ==
    UNCHANGED <<bids_, asks_, price_index_, order_index_, heap, order_accounts,
                portfolios_>>

\* ------------------------------------------------------- claims C11 to C20
\* C11: only Limit GTC orders ever rest.  After addOrder has returned for a
\* Market order, a Limit IOC order or a FOK order, that order is in no level
\* and not in order_index_, whatever part of it was filled
C11_OnlyLimitGTCRests ==
    (pc = "ready" /\ last.op = "add" /\ (last.type = "Market" \/ last.tif # "GTC"))
        => /\ last.id \notin DOMAIN order_index_
           /\ last.id \notin AllQueued

\* C12: a FOK Limit order fills completely or not at all.  When the opposite
\* side holds less than its quantity at crossable prices, addOrder makes no
\* trade and changes nothing; otherwise the trades of the call total the
\* order's quantity
C12_FOKAllOrNothing ==
    [][(pc' = "ready" /\ last'.op = "add" /\ last'.result = "success"
            /\ last'.type = "Limit" /\ last'.tif = "FOK")
        => IF Available(Ladder(Opposite(last'.side)), 1, last'.side, last'.price)
                < last'.quantity
           THEN trades' = <<>> /\ BookUnchanged
           ELSE SumTraded(trades') = last'.quantity]_vars

\* C13: a Market order is crossable against every opposite level whatever
\* its price field holds: addOrder trades it from the best opposite level
\* outward until it is filled or nothing waits on the opposite side
C13_MarketSweeps ==
    (pc = "ready" /\ last.op = "add" /\ last.type = "Market" /\ last.quantity > 0)
        => /\ \/ SumTraded(trades) = last.quantity
              \/ Waiting(Opposite(last.side)) \ {last.id} = {}
           /\ \A i \in 1..Len(trades) : trades[i].better_makers = {}

\* C14: a Limit GTC order with quantity left after matching rests at the
\* tail of the level of its price on its own side: that level's
\* total_quantity grows by the order's remaining quantity and its
\* order_count by one, the order is in order_index_; an order that crosses
\* nothing makes no trade and leaves every other level as it was
C14_RestsAtTail ==
    [][(pc' = "ready" /\ last'.op = "add" /\ last'.result = "success"
            /\ last'.type = "Limit" /\ last'.tif = "GTC"
            /\ heap'[last'.id].st = "live"
            /\ ULess(0, remainingQuantity(heap'[last'.id])))
        => LET id   == last'.id
               was  == {lv \in LevelViews : lv.side = last'.side /\ lv.price = last'.price}
               is   == {lv \in LevelViews' : lv.side = last'.side /\ lv.price = last'.price}
               crossing == Available(Ladder(Opposite(last'.side)), 1, last'.side,
                                     last'.price) # 0
           IN /\ id \in DOMAIN order_index_'
              /\ Cardinality(is) = 1
              /\ \A lv \in is :
                    /\ lv.queue # <<>> /\ lv.queue[Len(lv.queue)] = id
                    /\ lv.total_quantity =
                           remainingQuantity(heap'[id])
                           + (IF was = {} THEN 0 ELSE (CHOOSE w \in was : TRUE).total_quantity)
                    /\ lv.order_count =
                           1 + (IF was = {} THEN 0 ELSE (CHOOSE w \in was : TRUE).order_count)
              /\ ~crossing => /\ trades' = <<>>
                              /\ LevelViews' \ is = LevelViews \ was]_vars

\* C15: bestBid() is the highest price of a resident Buy order and bestAsk()
\* the lowest price of a resident Sell order, and each is absent (0) exactly
\* when its side has no resident order
C15_BestPrices ==
    pc = "ready" =>
        /\ bestBid(bids_) = SetMax({heap[o].price : o \in ResidentOf("Buy")}, 0)
        /\ bestAsk(asks_) = SetMin({heap[o].price : o \in ResidentOf("Sell")}, 0)

\* C16: getDepth(n) gives, for each side, its min(n, number of levels) best
\* levels, best first (bids by falling price, asks by rising price), and
\* never a level without orders
C16_DepthBestFirst ==
    pc = "ready" =>
        \A n \in 1..MaxPrice :
            LET d == getDepth(bids_, asks_, n)
            IN /\ Len(d.bids) = (IF n < bids_.size THEN n ELSE bids_.size)
               /\ Len(d.asks) = (IF n < asks_.size THEN n ELSE asks_.size)
               /\ \A i \in 1..(Len(d.bids) - 1) : d.bids[i].price > d.bids[i + 1].price
               /\ \A i \in 1..(Len(d.asks) - 1) : d.asks[i].price < d.asks[i + 1].price
               /\ \A i \in 1..Len(d.bids) :
                    /\ d.bids[i].order_count # 0
                    /\ Cardinality({p \in LevelPrices(bids_) : p > d.bids[i].price}) = i - 1
               /\ \A i \in 1..Len(d.asks) :
                    /\ d.asks[i].order_count # 0
                    /\ Cardinality({p \in LevelPrices(asks_) : p < d.asks[i].price}) = i - 1

\* the sequence q without the id
Without(q, id) == SelectSeq(q, LAMBDA x : x # id)

\* a level after the order id of remaining quantity rem has left the book
LevelWithout(lv, id, rem) ==
    IF id \in SeqToSet(lv.queue)
    THEN [lv EXCEPT !.total_quantity = @ - rem, !.order_count = @ - 1,
                    !.queue = Without(@, id)]
    ELSE lv

\* what the caller gave and the engine keeps of an order
Terms(o) == [side |-> o.side, price |-> o.price, quantity |-> o.quantity,
             filled_quantity |-> o.filled_quantity]

\* not resident: never added, cancelled, or filled completely
NotResident(id) ==
    \/ id \notin DOMAIN order_index_
    \/ heap[id].st # "live"
    \/ (ULess(0, heap[id].quantity) /\ heap[id].filled_quantity = heap[id].quantity)

\* C17: a successful cancelOrder(id) removes exactly the order id: it is in
\* no level and not in order_index_ afterwards, its level has lost its
\* remaining quantity and one order (and is gone if that emptied it), every
\* other level and every other resident order is as before
C17_CancelRemovesExactly ==
    [][(pc' = "ready" /\ last'.op = "cancel" /\ last'.result = "success")
        => /\ last'.id \notin AllQueued'
           /\ DOMAIN order_index_' = DOMAIN order_index_ \ {last'.id}
           /\ LevelViews' =
                {w \in {LevelWithout(lv, last'.id, remainingQuantity(heap[last'.id])) :
                           lv \in LevelViews} : w.order_count # 0}
           /\ \A o \in DOMAIN order_index_ \ {last'.id} :
                heap'[o].st = heap[o].st /\ Terms(heap'[o]) = Terms(heap[o])]_vars

\* C18: cancelOrder and modifyOrder of an id that is not resident (never
\* added, cancelled, or filled completely as maker or as taker) return
\* "Order not found" and change nothing
C18_NotFound ==
    [][(last'.op \in {"cancel", "modify"} /\ NotResident(last'.id))
        => last'.result = "Order not found" /\ BookUnchanged]_vars

\* C19: addOrder of an id that is in order_index_ is refused and changes
\* nothing: the book, order_index_ and the account associated with the
\* resident order are what they were
C19_DuplicateId ==
    [][(last'.op = "add" /\ last'.id \in DOMAIN order_index_)
        => /\ last'.result \in {"Order ID already exists", "Risk validation failed"}
           /\ BookUnchanged]_vars

\* C20: addOrder of an order of quantity 0 is refused, with or without a
\* risk manager: no call that addOrder accepted was given the quantity 0
C20_InvalidOrder ==
    (last.op = "add" /\ last.result = "success") => ULess(0, last.quantity)

\* ------------------------------------------------------- claims C25 to C27
\* the levels of side s and price p
LevelsAt(views, s, p) == {lv \in views : lv.side = s /\ lv.price = p}

\* C25: modifyOrder(id, p', q) with p' another price than the order's acts as
\* a cancel followed by an add at p'.  The order leaves its old level, is
\* matched against the opposite side like a new order (it trades when the
\* opposite side waits at a price p' crosses), and what is left of it rests
\* at the tail of the one level of its side at p' and in no other level
C25_ModifyPriceIsCancelAdd ==
    [][(pc' = "ready" /\ last'.op = "modify" /\ last'.result = "success"
            /\ last'.before.st = "live" /\ last'.price > 0
            /\ last'.price # last'.before.price)
        => LET id   == last'.id
               side == last'.before.side
               crossing == Available(Ladder(Opposite(side)), 1, side, last'.price) # 0
               home == LevelsAt(LevelViews', side, last'.price)
           IN /\ crossing => trades' # <<>>
              /\ \A lv \in LevelViews' \ home : id \notin SeqToSet(lv.queue)
              /\ (id \in DOMAIN order_index_' \/ ~crossing) =>
                    /\ Cardinality(home) = 1
                    /\ \A lv \in home : lv.queue # <<>> /\ lv.queue[Len(lv.queue)] = id]_vars

\* C26: modifyOrder with a new quantity below what is filled of the order
\* treats the order as filled and removes it: afterwards it is in no level
\* and not in order_index_
C26_LoweredBelowFilledIsRemoved ==
    [][(pc' = "ready" /\ last'.op = "modify" /\ last'.result = "success"
            /\ last'.before.st = "live" /\ ULess(0, last'.quantity)
            /\ ULess(last'.quantity, last'.before.filled_quantity))
        => /\ last'.id \notin DOMAIN order_index_'
           /\ last'.id \notin AllQueued']_vars

\* C27: modifyOrder of a resident order with a new price that is not
\* positive, or with the new quantity 0, is refused and changes nothing
C27_InvalidModify ==
    [][(last'.op = "modify" /\ last'.indexed /\ last'.before.st = "live"
            /\ (last'.price <= 0 \/ last'.quantity = 0))
        => last'.result # "success" /\ BookUnchanged]_vars

\* ------------------------------------------------------- claims C21 to C23
\* C21: with a risk manager, addOrder of an order larger than MAX_ORDER_SIZE,
\* or of a Limit order whose price is not in 0 < price <= MAX_PRICE, is
\* refused with "Risk validation failed"; a refused order changes nothing
\* (book, order_index_, positions, the accounts of the order ids); and a
\* Market order is never refused for its price
C21_RiskRejected ==
    [][(risk_manager_ /\ last'.op = "add")
        => /\ last'.result = "success" =>
                /\ ~ULess(MAX_ORDER_SIZE, last'.quantity)
                /\ last'.type = "Limit" => (0 < last'.price /\ last'.price <= MAX_PRICE)
           /\ last'.result = "Risk validation failed" =>
                /\ BookUnchanged
                /\ last'.type = "Market" =>
                    \/ ULess(MAX_ORDER_SIZE, last'.quantity)
                    \/ ~withinPosition(portfolios_[AccountName(last'.account)],
                                       last'.side, last'.quantity)]_vars

\* C22: with a risk manager, no order is accepted whose quantity would take
\* the net position of its account, accumulated from the trades of the orders
\* that account submitted, beyond MAX_POSITION in either direction
C22_PositionLimit ==
    [][(risk_manager_ /\ last'.op = "add" /\ last'.result = "success")
        => withinPosition(net[AccountName(last'.account)], last'.side,
                          last'.quantity)]_vars

\* C23: the trades of a call add their quantity to the position of the account
\* the buy order was accepted with, subtract it from the position of the
\* account the sell order was accepted with, and change no other position
C23_TradeMovesPositions ==
    [][(risk_manager_ /\ pc' = "ready")
        => portfolios_' = Executed(portfolios_, trades')]_vars

\* ------------------------------------------------------- claims C24, C28 to C30
\* the level lv after the remaining quantity of its order id grew by delta
LevelResized(lv, id, delta) ==
    IF id \in SeqToSet(lv.queue) THEN [lv EXCEPT !.total_quantity = @ + delta] ELSE lv

\* the book updates among the events es
BookUpdates(es) == SelectSeq(es, LAMBDA e : e.kind \in {"Add", "Modify", "Remove"})

\* C24: modifyOrder(id, p, q) with p the price the order has and q above its
\* filled quantity changes the quantity in place: every queue is as before,
\* the level of the order gains q minus the old quantity, no other level and
\* no other order changes, and one book update is published, a Modify
C24_ModifyQuantityInPlace ==
    [][(pc' = "ready" /\ last'.op = "modify" /\ last'.result = "success"
            /\ last'.before.st = "live" /\ last'.price = last'.before.price
            /\ ULess(last'.before.filled_quantity, last'.quantity))
        => /\ LevelViews' = {LevelResized(lv, last'.id,
                                          last'.quantity - last'.before.quantity)
                                : lv \in LevelViews}
           /\ \A o \in DOMAIN order_index_ \ {last'.id} :
                  Terms(heap'[o]) = Terms(heap[o])
           /\ Len(BookUpdates(events')) = 1
           /\ BookUpdates(events')[1].kind = "Modify"]_vars

\* the events that carry a sequence number: Trade, book update, BestPrices
Numbered(es) == SelectSeq(es, LAMBDA e : e.kind # "Depth")

\* C28: the sequence numbers of the Trade, book update and BestPrices events
\* of an engine grow by exactly 1 from each event to the next, within a call
\* and from the last event of a call to the first of the next
C28_SequenceStepOne ==
    [][/\ \A i \in 1..(Len(Numbered(events')) - 1) :
              Numbered(events')[i + 1].sequence = Numbered(events')[i].sequence + 1
       /\ (Numbered(events) # <<>> /\ Numbered(events') # <<>>)
              => Numbered(events')[1].sequence
                     = Numbered(events)[Len(Numbered(events))].sequence + 1]_vars

\* the BestPrices snapshots among the events es
Snapshots(es) == SelectSeq(es, LAMBDA e : e.kind = "BestPrices")

\* C29: a call publishes at most one BestPrices, after its trades and book
\* updates, and only if the best price or the size at the best price of a
\* side is not what it was before the call
C29_BestPricesOnChange ==
    [][pc' = "ready"
        => /\ Len(Snapshots(events')) <= 1
           /\ Snapshots(events') # <<>>
                  => /\ Numbered(events')[Len(Numbered(events'))].kind = "BestPrices"
                     /\ getBestPrices(bids_', asks_') # getBestPrices(bids_, asks_)]_vars

\* cancelOrder now returns for the order that the call before it, an
\* addOrder without trade, added
CancelsLastAdd ==
    /\ pc = "ready" /\ last.op = "add" /\ last.result = "success" /\ trades = <<>>
    /\ pc' = "ready" /\ last'.op = "cancel" /\ last'.result = "success"
    /\ last'.id = last.id

\* C30: addOrder of an order that rests without a trade, then cancelOrder of
\* its id: the levels of both sides, order_index_ and the best prices are
\* what they were before the addOrder, and the events of the two calls have
\* taken two sequence numbers
C30_AddCancelRestores ==
    [][CancelsLastAdd
        => /\ Summary'.depth = prior.depth
           /\ Summary'.index = prior.index
           /\ Summary'.prices = prior.prices
           /\ (book_sequence' - prior.book_sequence) + (sequence_' - prior.sequence) = 2]_vars

\* ------------------------------------------------------- claims C39 and C40
\* the orders queued in the ladder of side s
QueuedIn(s) ==
    UNION {SeqToSet(Queue(heap, Ladder(s).data[i])) : i \in 1..Ladder(s).size}

\* C39: between calls every order queued in a level of bids_ is a Buy order
\* and every order queued in a level of asks_ is a Sell order
C39_SidesApart ==
    pc = "ready" => \A s \in Sides : \A o \in QueuedIn(s) : heap[o].side = s

\* C40: in every trade an addOrder call makes, buy_order_id is a Buy order,
\* sell_order_id is a Sell order, they are two orders, and one of them, not
\* both, is the order of the call
C40_TradeSides ==
    last.op = "add"
        => \A i \in 1..Len(trades) :
               /\ trades[i].taker_order.side # trades[i].maker_order.side
               /\ trades[i].buy_order_id # trades[i].sell_order_id
               /\ trades[i].taker = last.id
               /\ trades[i].maker # last.id

\* ------------------------------------------------------- claim C35
\* C35: from one return to the next, filled_quantity of an order that is in
\* order_index_ before and after the call does not get smaller
C35_FilledNeverDecreases ==
    [][(pc = "ready" /\ pc' = "ready")
        => \A o \in DOMAIN order_index_ \cap DOMAIN order_index_' :
               (heap[o].st = "live" /\ heap'[o].st = "live")
                   => ~ULess(heap'[o].filled_quantity, heap[o].filled_quantity)]_vars

\* ------------------------------------------------------- claims C31 to C34
\* the number of Trade events among the first i events
TradesUpTo(es, i) == Len(SelectSeq(SubSeq(es, 1, i), LAMBDA e : e.kind = "Trade"))

IsBookUpdate(e) == e.kind \in {"Add", "Modify", "Remove"}

\* C33: every Trade event is directly followed by one book update for the
\* maker of that trade, with the maker's side and price: a Remove if the
\* trade filled the maker, a Modify if not; the event after it is no further
\* book update
C33_MakerUpdateFollowsTrade ==
    \A i \in 1..Len(events) :
        events[i].kind = "Trade"
            => /\ i < Len(events)
               /\ TradesUpTo(events, i) <= Len(trades)
               /\ events[i + 1].kind
                      = (IF isFullyFilled(trades[TradesUpTo(events, i)].maker_after)
                         THEN "Remove" ELSE "Modify")
               /\ events[i + 1].side = trades[TradesUpTo(events, i)].maker_order.side
               /\ events[i + 1].price = trades[TradesUpTo(events, i)].maker_order.price
               /\ (i + 2 <= Len(events) => ~IsBookUpdate(events[i + 2]))

\* a call has filled one maker completely and another in part
C33_Witness ==
    /\ pc = "ready" /\ Len(trades) = 2
    /\ isFullyFilled(trades[1].maker_after) /\ ~isFullyFilled(trades[2].maker_after)
    /\ TradesUpTo(events, Len(events)) = 2

\* the positions in es of the events of kind k
Positions(es, k) == {i \in 1..Len(es) : es[i].kind = k}

\* C34: a successful addOrder publishes an Add update exactly if the trades
\* of the call leave a part of the order, and then after every Trade event
\* of the call
C34_AddOnlyForRemainder ==
    (pc = "ready" /\ last.op = "add" /\ last.result = "success")
        => /\ (Positions(events, "Add") # {}) <=> ULess(SumTraded(trades), last.quantity)
           /\ \A a \in Positions(events, "Add") :
                  \A t \in Positions(events, "Trade") : t < a

\* C32: a successful modifyOrder to another price at which nothing of the
\* opposite side can trade publishes two book updates: a Remove at the old
\* price with the remaining quantity the order had, then an Add at the new
\* price with the remaining quantity it has now; no Modify
C32_ModifyPriceEvents ==
    [][(pc' = "ready" /\ last'.op = "modify" /\ last'.result = "success"
            /\ last'.before.st = "live" /\ last'.price > 0
            /\ last'.price # last'.before.price
            /\ Available(Ladder(Opposite(last'.before.side)), 1, last'.before.side,
                         last'.price) = 0)
        => /\ Len(BookUpdates(events')) = 2
           /\ BookUpdates(events')[1].kind = "Remove"
           /\ BookUpdates(events')[1].price = last'.before.price
           /\ BookUpdates(events')[1].quantity = remainingQuantity(last'.before)
           /\ BookUpdates(events')[2].kind = "Add"
           /\ BookUpdates(events')[2].price = last'.price
           /\ BookUpdates(events')[2].quantity = remainingQuantity(heap'[last'.id])]_vars

\* modifyOrder now returns with the price and the quantity that the order
\* had before the call before it, a modifyOrder of the same order to a price
\* at which nothing of the opposite side can trade
ModifiesBack ==
    /\ pc = "ready" /\ last.op = "modify" /\ last.result = "success"
    /\ last.before.st = "live" /\ last.price > 0 /\ ULess(0, last.quantity)
    /\ Available(Ladder(Opposite(last.before.side)), 1, last.before.side, last.price) = 0
    /\ pc' = "ready" /\ last'.op = "modify" /\ last'.result = "success"
    /\ last'.id = last.id
    /\ last'.price = last.before.price /\ last'.quantity = last.before.quantity

\* C31: modifyOrder(id, p, q) and then modifyOrder(id, p0, q0), p0 and q0
\* the price and quantity the order had: the levels of both sides with their
\* total quantity and order count, and the best prices, are what they were
C31_ModifyBackRestores ==
    [][ModifiesBack
        => /\ Summary'.depth = prior.depth
           /\ Summary'.prices = prior.prices
           /\ Summary'.index = prior.index]_vars

\* ------------------------------------------------------- claims C36 to C38
\* the book a caller sees in the machine n
SummaryOf(n) ==
    [depth |-> getDepth(n.bids, n.asks, MaxId), index |-> DOMAIN n.oidx,
     prices |-> getBestPrices(n.bids, n.asks)]

\* what addOrder of the last call would have left if no subscriber had
\* thrown, for either outcome of std::sort
Unfailed(call, now) ==
    {SummaryOf(Normalize(addOrder(Machine(tie), call.id, call.side, call.price,
                                  call.quantity, "", now))) : tie \in BOOLEAN}

\* C36: when a subscriber throws during an addOrder, the caller gets no
\* exception, and the book after the call is the book the same call leaves
\* when no subscriber throws
C36_SubscriberFailureContained ==
    [][AddOrderSubscriberThrows
          => /\ last'.result # "exception"
             /\ SummaryOf(Machine(FALSE))' \in Unfailed(last', nops')]_vars

\* the engine as its constructor leaves it
InitialMachine(tie) ==
    [Machine(tie) EXCEPT !.bids = EmptyVec, !.asks = EmptyVec, !.pidx = <<>>,
                         !.oidx = <<>>, !.heap = [i \in Ids |-> NoOrder],
                         !.bseq = 0, !.seq = 0, !.tctr = 1]

\* addOrder with the arguments the thread th gave
addOrderOf(m, th) == addOrder(m, th.id, th.side, th.price, th.quantity, "", 0)

\* the calls of the threads made one after the other on a new engine, in
\* either order
SerialRuns ==
    {addOrderOf(addOrderOf(InitialMachine(tie), threads[o[1]]), threads[o[2]]) :
        o \in {<<1, 2>>, <<2, 1>>}, tie \in BOOLEAN}

SerialOutcomes == {SummaryOf(Normalize(r)) : r \in {x \in SerialRuns : ~x.hang}}

\* the levels of either ladder in which the order id is queued
LevelsOf(id) ==
    {<<s, i>> \in Sides \X (1..MaxId) :
        i <= Ladder(s).size /\ id \in SeqToSet(Queue(heap, Ladder(s).data[i]))}

ResidentOnce(id) == id \in DOMAIN order_index_ /\ Cardinality(LevelsOf(id)) = 1

Consumed(id) == heap[id].st # "live" \/ isFullyFilled(heap[id])

\* C38: when every thread has returned from its addOrder, the book is one
\* that the same calls leave when made one after the other, and every
\* accepted order is in one level and in order_index_ or was consumed
C38_ConcurrentAddsAtomic ==
    (pc = "ready" /\ \A t \in ThreadIds : threads[t].pc = "done")
        => /\ SummaryOf(Machine(FALSE)) \in SerialOutcomes
           /\ \A t \in ThreadIds :
                  threads[t].result = "success"
                      => ResidentOnce(threads[t].id) \/ Consumed(threads[t].id)

\* C37: with two engines in the process, the book updates of a call on the
\* first engine continue the numbers of its call before, whatever the second
\* engine did in between; and a call on the second engine takes none of the
\* numbers and trade ids the first engine gives out next
C37_NumbersPerEngine ==
    [][/\ (other' = other /\ nops' # nops
              /\ BookUpdates(events) # <<>> /\ BookUpdates(events') # <<>>)
          => BookUpdates(events')[1].sequence
                 = BookUpdates(events)[Len(BookUpdates(events))].sequence + 1
       /\ other' # other => UNCHANGED <<book_sequence, trade_counter>>]_vars

====
